---- MODULE Spec2Model ----
(***************************************************************************)
(* Invoice manager: the invoices table (server/src/db/schema.ts) and the   *)
(* five handlers behind the tRPC router (server/src/index.ts).  Every      *)
(* handler is an async function: each awaited store statement is one       *)
(* atomic step, and steps of different calls interleave freely.            *)
(*                                                                         *)
(* Amounts given to a handler are JavaScript numbers, written here in      *)
(* thousandths (150.75 is 150750); the numeric(10,2) column holds          *)
(* hundredths (15075).  Dates and timestamps are clock readings.           *)
(***************************************************************************)
EXTENDS Integers, Sequences, FiniteSets, TLC

\* ---------------------------------------------------------------- bounds
MaxCalls == 2
MaxClock == 1
MaxId == 2

Slots == 1..MaxCalls

\* ---------------------------------------------------------------- inputs
testInvoice1 ==
  [invoice_number |-> "INV-001", client_name |-> "John Doe",
   client_email |-> "john@example.com", amount_due |-> 150750,
   issue_date |-> 1, due_date |-> 31,
   services_rendered |-> "Web development services", paid |-> FALSE]

testInvoice2 ==
  [invoice_number |-> "INV-002", client_name |-> "Jane Smith",
   client_email |-> "jane@example.com", amount_due |-> 275500,
   issue_date |-> 2, due_date |-> 32,
   services_rendered |-> "Design consultation", paid |-> TRUE]

duplicateInput == [testInvoice1 EXCEPT !.client_name = "Different Client"]

CreateInputs == {testInvoice1, testInvoice2, duplicateInput}

\* ids a caller may name: a negative id, and every id the sequence can issue
InputIds == {-1} \cup (1..MaxId)

\* an update input is the object the caller sent: id plus the supplied keys
UpdateInputs(id) ==
  { [id |-> id],
    [id |-> id, paid |-> TRUE],
    [id |-> id, paid |-> FALSE],
    [id |-> id, invoice_number |-> "INV-002"],
    [id |-> id] @@ testInvoice2 }

\* ---------------------------------------------------------------- state
VARIABLES table, nextId, clock, calls, client, responses

vars == <<table, nextId, clock, calls, client, responses>>

\* the state of the browser client and the responses on their way to it
clientVars == <<client, responses>>

NoInput == [none |-> TRUE]
NoValue == [none |-> TRUE]
Idle ==
  [op |-> "none", pc |-> "idle", input |-> NoInput, err |-> "", ret |-> NoValue,
   stmts |-> <<>>]

\* ---------------------------------------------------------------- store
\* mutant: the store cutting the digits after the second instead of rounding
toNumericTruncating(amount) == amount \div 10

\* amount_due.toString() written to a numeric(10,2) column: the store rounds
\* the decimal to two fractional digits, half away from zero
toNumeric(amount) == (amount + 5) \div 10

\* parseFloat of the column's decimal string, in thousandths again
parseFloat(stored) == stored * 10

\* new Date() in a handler, and the column default now()
newDate == clock
defaultNow == clock

\* db.select().from(invoicesTable).where(eq(column, value))
selectById(tbl, id) == {r \in tbl : r.id = id}
selectByNumber(tbl, number) == {r \in tbl : r.invoice_number = number}

\* mutants: the invoice_number column declared without unique(); the
\* constraint applied to rows being updated only, not to new rows
noUniqueConstraint(tbl, number, self) == FALSE
uniqueOnUpdateOnly(tbl, number, self) ==
  /\ \E r \in tbl : r.id = self
  /\ \E r \in tbl : r.invoice_number = number /\ r.id # self

\* mutant: the constraint applied to new rows only, not to updated rows
uniqueOnInsertOnly(tbl, number, self) ==
  /\ \A r \in tbl : r.id # self
  /\ \E r \in tbl : r.invoice_number = number /\ r.id # self

\* unique(invoice_number): a write that would leave two rows with one number
\* is rejected by the store; `self` is the id of the row being written
uniqueViolation(tbl, number, self) ==
  \E r \in tbl : r.invoice_number = number /\ r.id # self

\* mutant: the delete statement without its where clause
deleteEveryRow(tbl, id) == {}

\* db.delete(invoicesTable).where(eq(invoicesTable.id, id))
deleteWhereId(tbl, id) == tbl \ selectById(tbl, id)

\* mutants: created_at copied from the input's issue_date instead of the
\* column default; the id taken from the clock instead of the sequence
insertedRowIssueDate(input, id) ==
  [id |-> id,
   invoice_number |-> input.invoice_number,
   client_name |-> input.client_name,
   client_email |-> input.client_email,
   amount_due |-> (input.amount_due + 5) \div 10,
   issue_date |-> input.issue_date,
   due_date |-> input.due_date,
   services_rendered |-> input.services_rendered,
   paid |-> input.paid,
   created_at |-> input.issue_date,
   updated_at |-> clock]
insertedRowClockId(input, id) ==
  [id |-> clock + 1,
   invoice_number |-> input.invoice_number,
   client_name |-> input.client_name,
   client_email |-> input.client_email,
   amount_due |-> (input.amount_due + 5) \div 10,
   issue_date |-> input.issue_date,
   due_date |-> input.due_date,
   services_rendered |-> input.services_rendered,
   paid |-> input.paid,
   created_at |-> clock,
   updated_at |-> clock]

\* mutant: the id computed as the number of stored rows plus one
insertedRowCountId(input, id) ==
  [id |-> Cardinality(table) + 1,
   invoice_number |-> input.invoice_number,
   client_name |-> input.client_name,
   client_email |-> input.client_email,
   amount_due |-> (input.amount_due + 5) \div 10,
   issue_date |-> input.issue_date,
   due_date |-> input.due_date,
   services_rendered |-> input.services_rendered,
   paid |-> input.paid,
   created_at |-> clock,
   updated_at |-> clock]

\* the row an insert stores: serial id, supplied columns, timestamp defaults
insertedRow(input, id) ==
  [id |-> id,
   invoice_number |-> input.invoice_number,
   client_name |-> input.client_name,
   client_email |-> input.client_email,
   amount_due |-> toNumeric(input.amount_due),
   issue_date |-> input.issue_date,
   due_date |-> input.due_date,
   services_rendered |-> input.services_rendered,
   paid |-> input.paid,
   created_at |-> defaultNow,
   updated_at |-> defaultNow]

\* mutants: paid falls back to false when the input has no paid key; a
\* column is copied only when its value is truthy (if (input.paid));
\* created_at is set along with updated_at; updated_at is a time read once
\* when the module was loaded; updated_at is left out of the set clause
updateDataPaidDefault(input) ==
  [key \in (DOMAIN input \ {"id"}) \cup {"updated_at", "paid"} |->
     IF key = "updated_at" THEN clock
     ELSE IF key = "paid" THEN ("paid" \in DOMAIN input /\ input.paid)
     ELSE IF key = "amount_due" THEN (input[key] + 5) \div 10
     ELSE input[key]]
updateDataTruthy(input) ==
  [key \in {k \in DOMAIN input \ {"id"} : k # "paid" \/ input[k]}
           \cup {"updated_at"} |->
     IF key = "updated_at" THEN clock
     ELSE IF key = "amount_due" THEN (input[key] + 5) \div 10
     ELSE input[key]]
updateDataResetsCreatedAt(input) ==
  [key \in (DOMAIN input \ {"id"}) \cup {"updated_at", "created_at"} |->
     IF key \in {"updated_at", "created_at"} THEN clock
     ELSE IF key = "amount_due" THEN (input[key] + 5) \div 10
     ELSE input[key]]
updateDataStaleTimestamp(input) ==
  [key \in (DOMAIN input \ {"id"}) \cup {"updated_at"} |->
     IF key = "updated_at" THEN 0
     ELSE IF key = "amount_due" THEN (input[key] + 5) \div 10
     ELSE input[key]]
updateDataNoTimestamp(input) ==
  [key \in DOMAIN input \ {"id"} |->
     IF key = "amount_due" THEN (input[key] + 5) \div 10 ELSE input[key]]

\* the columns updateInvoice copies from its input, one test per column
UpdatableColumns ==
  {"invoice_number", "client_name", "client_email", "amount_due",
   "issue_date", "due_date", "services_rendered", "paid"}

\* updateData: updated_at always, and each column whose key the input has
updateData(input) ==
  [key \in (DOMAIN input \cap UpdatableColumns) \cup {"updated_at"} |->
     IF key = "updated_at" THEN newDate
     ELSE IF key = "amount_due" THEN toNumeric(input[key])
     ELSE input[key]]

\* db.update(invoicesTable).set(data): the row with the set columns replaced
setColumns(row, data) ==
  [col \in DOMAIN row |-> IF col \in DOMAIN data THEN data[col] ELSE row[col]]

\* what a handler returns for a row: the row with amount_due as a number
toInvoice(row) == [row EXCEPT !.amount_due = parseFloat(row.amount_due)]

\* mutants: a pre-check that looks the value up in the wrong column, and
\* pre-checks that are missing
numberExistsWrongColumn(tbl, input) ==
  \E r \in tbl : r.client_name = input.invoice_number
updateTargetNeverMissing(tbl, input) == FALSE
deleteTargetNeverMissing(tbl, input) == FALSE

\* the handlers' pre-checks on what their first select returned
numberExists(tbl, input) == selectByNumber(tbl, input.invoice_number) # {}
updateTargetMissing(tbl, input) == selectById(tbl, input.id) = {}
deleteTargetMissing(tbl, input) == selectById(tbl, input.id) = {}

\* mutant: the select without its where clause
getInvoiceAnyRow(tbl, input) ==
  IF tbl = {}
  THEN [pc |-> "failed", err |-> "not found", ret |-> NoValue]
  ELSE [pc |-> "done", err |-> "",
        ret |-> LET r == CHOOSE x \in tbl : TRUE
                IN [r EXCEPT !.amount_due = r.amount_due * 10]]

\* getInvoice: the select by id, the not-found test and the conversion
getInvoiceResult(tbl, input) ==
  LET rows == selectById(tbl, input.id) IN
    IF rows = {}
    THEN [pc |-> "failed", err |-> "not found", ret |-> NoValue]
    ELSE [pc |-> "done", err |-> "", ret |-> toInvoice(CHOOSE r \in rows : TRUE)]

\* every ordering of the rows with created_at descending
RECURSIVE orderings(_)
orderings(rows) ==
  IF rows = {} THEN {<<>>}
  ELSE UNION { {<<r>> \o s : s \in orderings(rows \ {r})} :
               r \in {x \in rows : \A y \in rows : x.created_at >= y.created_at} }

\* mutant: the rows ordered oldest-created first
getInvoicesOldestFirst(tbl) ==
  { [i \in 1..Len(s) |->
       [s[Len(s) + 1 - i] EXCEPT !.amount_due = s[Len(s) + 1 - i].amount_due * 10]] :
      s \in orderings(tbl) }

\* getInvoices: the lists the select may return, newest-created first, each
\* row converted
getInvoicesResults(tbl) ==
  { [i \in 1..Len(s) |-> toInvoice(s[i])] : s \in orderings(tbl) }

\* ---------------------------------------------------------------- calls
\* a call that has issued its first statement, the select; stmts lists the
\* store statements the call has issued so far
Busy(c, op, pc, input) ==
  [op |-> op, pc |-> pc, input |-> input, err |-> "", ret |-> NoValue,
   stmts |-> <<"select">>]
Issued(call, stmt) == [call EXCEPT !.stmts = Append(@, stmt)]
Failed(call, err) == [call EXCEPT !.pc = "failed", !.err = err]
Done(call, ret) == [call EXCEPT !.pc = "done", !.ret = ret]

\* no response is waiting to be delivered
Settled == \A c \in Slots : calls[c].pc \notin {"done", "failed"}

\* the createForm of a freshly rendered App, and after a successful create
emptyForm ==
  [invoice_number |-> "", client_name |-> "", client_email |-> "",
   amount_due |-> 0, issue_date |-> newDate, due_date |-> newDate,
   services_rendered |-> "", paid |-> FALSE]

\* the useState initial values of App; mounted tells whether the effect that
\* loads the list has run
initialApp ==
  [invoices |-> <<>>, isLoading |-> FALSE, editingInvoice |-> NoValue,
   isCreateDialogOpen |-> FALSE, isEditDialogOpen |-> FALSE,
   createForm |-> emptyForm, editForm |-> NoValue, mounted |-> FALSE]

Init ==
  /\ table = {}
  /\ nextId = 1
  /\ clock = 0
  /\ calls = [c \in Slots |-> Idle]
  /\ client = initialApp
  /\ responses = {}

\* time passes between statements
Tick ==
  /\ Settled
  /\ clock < MaxClock
  /\ clock' = clock + 1
  /\ UNCHANGED <<table, nextId, calls>>

\* createInvoice up to its first await: the select by invoice_number
createInvoiceCheck(c, input) ==
  /\ Settled
  /\ calls[c].pc = "idle"
  /\ LET call == Busy(c, "create", "insert", input) IN
       calls' = [calls EXCEPT ![c] =
         IF numberExists(table, input)
         THEN Failed(call, "already exists")
         ELSE call]
  /\ UNCHANGED <<table, nextId, clock>>

\* createInvoice's insert ... returning; the sequence advances even when the
\* store rejects the row
createInvoiceInsert(c) ==
  /\ Settled
  /\ calls[c].op = "create" /\ calls[c].pc = "insert"
  /\ nextId <= MaxId
  /\ nextId' = nextId + 1
  /\ LET row == insertedRow(calls[c].input, nextId) IN
       IF uniqueViolation(table, row.invoice_number, row.id)
       THEN /\ table' = table
            /\ calls' = [calls EXCEPT ![c] = Failed(Issued(@, "insert"), "unique violation")]
       ELSE /\ table' = table \cup {row}
            /\ calls' = [calls EXCEPT ![c] = Done(Issued(@, "insert"), toInvoice(row))]
  /\ UNCHANGED clock

\* updateInvoice up to its first await: the select by id
updateInvoiceCheck(c, input) ==
  /\ Settled
  /\ calls[c].pc = "idle"
  /\ LET call == Busy(c, "update", "set", input) IN
       calls' = [calls EXCEPT ![c] =
         IF updateTargetMissing(table, input)
         THEN Failed(call, "not found")
         ELSE call]
  /\ UNCHANGED <<table, nextId, clock>>

\* updateInvoice's update ... set ... where id ... returning
updateInvoiceSet(c) ==
  /\ Settled
  /\ calls[c].op = "update" /\ calls[c].pc = "set"
  /\ LET input == calls[c].input
         data == updateData(input)
         rows == selectById(table, input.id)
     IN IF rows = {}
        THEN \* result[0] is undefined: reading its amount_due throws
             /\ table' = table
             /\ calls' = [calls EXCEPT ![c] = Failed(Issued(@, "update"), "TypeError")]
        ELSE LET old == CHOOSE r \in rows : TRUE
                 new == setColumns(old, data)
             IN IF uniqueViolation(table, new.invoice_number, old.id)
                THEN /\ table' = table
                     /\ calls' = [calls EXCEPT ![c] =
                          Failed(Issued(@, "update"), "unique violation")]
                ELSE /\ table' = (table \ {old}) \cup {new}
                     /\ calls' = [calls EXCEPT ![c] =
                          Done(Issued(@, "update"), toInvoice(new))]
  /\ UNCHANGED <<nextId, clock>>

\* mutant: the delete statement issued first, the existence select after it
deleteInvoiceWriteFirst(c, input) ==
  /\ Settled
  /\ calls[c].pc = "idle"
  /\ table' = {r \in table : r.id # input.id}
  /\ LET call == [op |-> "delete", pc |-> "delete", input |-> input, err |-> "",
                  ret |-> NoValue, stmts |-> <<"delete", "select">>] IN
       calls' = [calls EXCEPT ![c] =
         IF \A r \in table : r.id # input.id
         THEN [call EXCEPT !.pc = "failed", !.err = "not found"]
         ELSE [call EXCEPT !.pc = "done", !.ret = [success |-> TRUE]]]
  /\ UNCHANGED <<nextId, clock>>

\* deleteInvoice up to its first await: the select by id
deleteInvoiceCheck(c, input) ==
  /\ Settled
  /\ calls[c].pc = "idle"
  /\ LET call == Busy(c, "delete", "delete", input) IN
       calls' = [calls EXCEPT ![c] =
         IF deleteTargetMissing(table, input)
         THEN Failed(call, "not found")
         ELSE call]
  /\ UNCHANGED <<table, nextId, clock>>

\* deleteInvoice's delete ... where id; its result is not looked at
deleteInvoiceExec(c) ==
  /\ Settled
  /\ calls[c].op = "delete" /\ calls[c].pc = "delete"
  /\ table' = deleteWhereId(table, calls[c].input.id)
  /\ calls' = [calls EXCEPT ![c] = Done(Issued(@, "delete"), [success |-> TRUE])]
  /\ UNCHANGED <<nextId, clock>>

\* mutant: the read stamps the row it returns
getInvoiceTouching(c, input) ==
  /\ Settled
  /\ calls[c].pc = "idle"
  /\ table' = {IF r.id = input.id THEN [r EXCEPT !.updated_at = clock] ELSE r :
                 r \in table}
  /\ calls' = [calls EXCEPT ![c] =
       IF \A r \in table : r.id # input.id
       THEN [op |-> "getInvoice", pc |-> "failed", input |-> input,
             err |-> "not found", ret |-> NoValue, stmts |-> <<"select">>]
       ELSE [op |-> "getInvoice", pc |-> "done", input |-> input, err |-> "",
             ret |-> [ok |-> TRUE], stmts |-> <<"select">>]]
  /\ UNCHANGED <<nextId, clock>>

\* getInvoice: one select by id
getInvoice(c, input) ==
  /\ Settled
  /\ calls[c].pc = "idle"
  /\ LET res == getInvoiceResult(table, input) IN
       calls' = [calls EXCEPT ![c] =
         [Busy(c, "getInvoice", res.pc, input) EXCEPT
            !.err = res.err, !.ret = res.ret]]
  /\ UNCHANGED <<table, nextId, clock>>

\* getInvoices: select every row, newest-created first
getInvoices(c) ==
  /\ Settled
  /\ calls[c].pc = "idle"
  /\ \E rows \in getInvoicesResults(table) :
       calls' = [calls EXCEPT ![c] =
         Done(Busy(c, "getInvoices", "select", NoInput), [rows |-> rows])]
  /\ UNCHANGED <<table, nextId, clock>>

\* the handler's promise settles and the router answers the caller; the
\* response leaves before the next store statement runs
Return(c) ==
  /\ calls[c].pc \in {"done", "failed"}
  /\ calls' = [calls EXCEPT ![c] = Idle]
  /\ UNCHANGED <<table, nextId, clock>>

Next ==
  \/ Tick /\ UNCHANGED clientVars
  \/ \E c \in Slots, input \in CreateInputs :
       createInvoiceCheck(c, input) /\ UNCHANGED clientVars
  \/ \E c \in Slots : createInvoiceInsert(c) /\ UNCHANGED clientVars
  \/ \E c \in Slots, id \in InputIds : \E input \in UpdateInputs(id) :
       updateInvoiceCheck(c, input) /\ UNCHANGED clientVars
  \/ \E c \in Slots : updateInvoiceSet(c) /\ UNCHANGED clientVars
  \/ \E c \in Slots, id \in InputIds :
       deleteInvoiceCheck(c, [id |-> id]) /\ UNCHANGED clientVars
  \/ \E c \in Slots : deleteInvoiceExec(c) /\ UNCHANGED clientVars
  \/ \E c \in Slots, id \in InputIds :
       getInvoice(c, [id |-> id]) /\ UNCHANGED clientVars
  \/ \E c \in Slots : getInvoices(c) /\ UNCHANGED clientVars
  \/ \E c \in Slots : Return(c) /\ UNCHANGED clientVars

Spec == Init /\ [][Next]_vars

\* ---------------------------------------------------------------- router
\* what a caller sends to the createInvoice mutation, before validation: the
\* two test invoices, an invoice without the paid key, one of less than a
\* cent, and one with a zero amount
rawNoPaid ==
  [invoice_number |-> "INV-003", client_name |-> "John Doe",
   client_email |-> "john@example.com", amount_due |-> 1005,
   issue_date |-> 0, due_date |-> 0,
   services_rendered |-> "Web development services"]

rawSubCent ==
  [invoice_number |-> "INV-004", client_name |-> "Jane Smith",
   client_email |-> "jane@example.com", amount_due |-> 4,
   issue_date |-> 0, due_date |-> 0,
   services_rendered |-> "Design consultation", paid |-> TRUE]

rawZeroAmount == [rawSubCent EXCEPT !.amount_due = 0]

RawCreateInputs ==
  {testInvoice1, testInvoice2, rawNoPaid, rawSubCent, rawZeroAmount}

\* what a caller sends to the updateInvoice mutation; the last carries a key
\* the schema does not declare
RawUpdateInputs(id) ==
  { [id |-> id],
    [id |-> id, paid |-> FALSE],
    [id |-> id, amount_due |-> 4],
    [id |-> id, amount_due |-> 0],
    [id |-> id, client_name |-> "Updated Client", created_at |-> 0] }

\* z.string().email(): the addresses used here that are well formed
isEmail(s) == s \in {"john@example.com", "jane@example.com"}

\* the checks of the create schema on a raw input
createInputValid(raw) ==
  /\ raw.invoice_number # ""
  /\ raw.client_name # ""
  /\ isEmail(raw.client_email)
  /\ raw.amount_due > 0
  /\ raw.services_rendered # ""

\* mutant: paid defaults to true
createInvoiceInputSchemaPaidTrue(raw) ==
  [key \in UpdatableColumns |->
     IF key \in DOMAIN raw THEN raw[key] ELSE TRUE]

\* the parsed create input: the declared keys, paid defaulting to false
createInvoiceInputSchema(raw) ==
  [key \in UpdatableColumns |->
     IF key = "paid" /\ "paid" \notin DOMAIN raw THEN FALSE ELSE raw[key]]

\* the checks of the update schema on the keys a raw input has
updateInputValid(raw) ==
  /\ "invoice_number" \in DOMAIN raw => raw.invoice_number # ""
  /\ "client_name" \in DOMAIN raw => raw.client_name # ""
  /\ "client_email" \in DOMAIN raw => isEmail(raw.client_email)
  /\ "amount_due" \in DOMAIN raw => raw.amount_due > 0
  /\ "services_rendered" \in DOMAIN raw => raw.services_rendered # ""

\* the parsed update input: id and the declared keys present, others stripped
updateInvoiceInputSchema(raw) ==
  [key \in DOMAIN raw \cap (UpdatableColumns \cup {"id"}) |-> raw[key]]

\* the procedure rejects an input its schema refuses; no handler runs
rejectInput(c, op, raw) ==
  /\ Settled
  /\ calls[c].pc = "idle"
  /\ calls' = [calls EXCEPT ![c] =
       [Idle EXCEPT !.op = op, !.pc = "failed", !.input = raw,
                    !.err = "invalid input"]]
  /\ UNCHANGED <<table, nextId, clock>>

createInvoiceProcedure(c, raw) ==
  IF createInputValid(raw)
  THEN createInvoiceCheck(c, createInvoiceInputSchema(raw))
  ELSE rejectInput(c, "create", raw)

updateInvoiceProcedure(c, raw) ==
  IF updateInputValid(raw)
  THEN updateInvoiceCheck(c, updateInvoiceInputSchema(raw))
  ELSE rejectInput(c, "update", raw)

\* one caller, one call at a time
Caller == CHOOSE c \in Slots : \A d \in Slots : c <= d

NextRouter ==
  \/ Tick /\ UNCHANGED clientVars
  \/ \E raw \in RawCreateInputs :
       createInvoiceProcedure(Caller, raw) /\ UNCHANGED clientVars
  \/ createInvoiceInsert(Caller) /\ UNCHANGED clientVars
  \/ \E id \in InputIds : \E raw \in RawUpdateInputs(id) :
       updateInvoiceProcedure(Caller, raw) /\ UNCHANGED clientVars
  \/ updateInvoiceSet(Caller) /\ UNCHANGED clientVars
  \/ \E id \in InputIds :
       deleteInvoiceCheck(Caller, [id |-> id]) /\ UNCHANGED clientVars
  \/ deleteInvoiceExec(Caller) /\ UNCHANGED clientVars
  \/ \E id \in InputIds :
       getInvoice(Caller, [id |-> id]) /\ UNCHANGED clientVars
  \/ getInvoices(Caller) /\ UNCHANGED clientVars
  \/ Return(Caller) /\ UNCHANGED clientVars

SpecRouter == Init /\ [][NextRouter]_vars

\* ---------------------------------------------------------------- client
\* mutant: the due date compared without looking at paid
isOverdueIgnoringPaid(dueDate, paid) == clock > dueDate

\* App.tsx, computed on the list the client holds and the client's clock
isOverdue(dueDate, paid) == ~paid /\ newDate > dueDate

\* the status badge of a listed invoice
badge(invoice) ==
  IF invoice.paid THEN "PAID"
  ELSE IF isOverdue(invoice.due_date, invoice.paid) THEN "OVERDUE"
  ELSE "PENDING"

\* the card style of a listed invoice
cardClass(invoice) ==
  IF isOverdue(invoice.due_date, invoice.paid) THEN "invoice-card-overdue"
  ELSE IF invoice.paid THEN "invoice-card-paid"
  ELSE "invoice-card"

\* invoices.reduce((sum, inv) => sum + inv.amount_due, 0)
RECURSIVE reduceSum(_)
reduceSum(invoices) ==
  IF invoices = <<>> THEN 0
  ELSE reduceSum(SubSeq(invoices, 1, Len(invoices) - 1))
         + invoices[Len(invoices)].amount_due

unpaid(inv) == ~inv.paid
overdue(inv) == isOverdue(inv.due_date, inv.paid)

\* mutant: the total taken over the whole list, without the filter
totalOutstandingAll(invoices) == reduceSum(invoices)

totalOutstanding(invoices) == reduceSum(SelectSeq(invoices, unpaid))
overdueInvoices(invoices) == SelectSeq(invoices, overdue)

\* ---------------------------------------------------------------- faults
\* the write statement each handler issues after its select
writeStatement(op) ==
  CASE op = "create" -> "insert"
    [] op = "update" -> "update"
    [] op = "delete" -> "delete"

\* an input for each of the five operations
FaultInputs(op) ==
  CASE op = "create" -> {testInvoice1}
    [] op = "update" -> {[id |-> id, paid |-> TRUE] : id \in 1..MaxId}
    [] op = "getInvoices" -> {NoInput}
    [] OTHER -> {[id |-> id] : id \in 1..MaxId}

\* the handler's catch block: the error is logged and thrown again
rethrown(call, error) == Failed(call, error)

\* the first statement of an operation, its select, fails in the store
selectFails(c, op, input) ==
  /\ Settled
  /\ calls[c].pc = "idle"
  /\ calls' = [calls EXCEPT ![c] =
       rethrown(Busy(c, op, "select", input), "store failure")]
  /\ UNCHANGED <<table, nextId, clock>>

\* mutant: the handler issues the failed write a second time
writeFailsRetried(c) ==
  /\ Settled
  /\ calls[c].pc \in {"insert", "set", "delete"}
  /\ calls' = [calls EXCEPT ![c] =
       [@ EXCEPT !.pc = "failed", !.err = "store failure",
                 !.stmts = @ \o <<writeStatement(calls[c].op), writeStatement(calls[c].op)>>]]
  /\ UNCHANGED <<table, nextId, clock>>

\* the insert, update or delete statement of a call fails in the store
writeFails(c) ==
  /\ Settled
  /\ calls[c].pc \in {"insert", "set", "delete"}
  /\ calls' = [calls EXCEPT ![c] =
       rethrown(Issued(@, writeStatement(calls[c].op)), "store failure")]
  /\ UNCHANGED <<table, nextId, clock>>

\* one caller through the router, with a store that may fail any statement
NextFaulty ==
  \/ Tick /\ UNCHANGED clientVars
  \/ \E raw \in RawCreateInputs :
       createInvoiceProcedure(Caller, raw) /\ UNCHANGED clientVars
  \/ createInvoiceInsert(Caller) /\ UNCHANGED clientVars
  \/ \E id \in InputIds : \E raw \in RawUpdateInputs(id) :
       updateInvoiceProcedure(Caller, raw) /\ UNCHANGED clientVars
  \/ updateInvoiceSet(Caller) /\ UNCHANGED clientVars
  \/ \E id \in InputIds :
       deleteInvoiceCheck(Caller, [id |-> id]) /\ UNCHANGED clientVars
  \/ deleteInvoiceExec(Caller) /\ UNCHANGED clientVars
  \/ \E id \in InputIds :
       getInvoice(Caller, [id |-> id]) /\ UNCHANGED clientVars
  \/ getInvoices(Caller) /\ UNCHANGED clientVars
  \/ \E op \in {"create", "update", "delete", "getInvoice", "getInvoices"} :
       \E input \in FaultInputs(op) :
         selectFails(Caller, op, input) /\ UNCHANGED clientVars
  \/ writeFails(Caller) /\ UNCHANGED clientVars
  \/ Return(Caller) /\ UNCHANGED clientVars

SpecFaulty == Init /\ [][NextFaulty]_vars

\* ---------------------------------------------------------------- App
\* responses the client may be waiting for at one time
MaxResponses == 2

\* what the user types into the create dialog
CreateForms == {testInvoice1, testInvoice2}

\* what the user changes in the edit dialog: the number, to one that may be
\* taken
EditChanges == {[invoice_number |-> testInvoice2.invoice_number]}

\* openEditDialog's copy of the invoice's editable fields
editFormOf(invoice) == [key \in UpdatableColumns |-> invoice[key]]

\* a change typed over the fields the edit dialog was opened with
typed(change, form) ==
  [key \in DOMAIN form |-> IF key \in DOMAIN change THEN change[key] ELSE form[key]]

\* { id: editingInvoice.id, ...editForm }
updateDataOf(app) ==
  [key \in {"id"} \cup DOMAIN app.editForm |->
     IF key = "id" THEN app.editingInvoice.id ELSE app.editForm[key]]

\* prev.map(invoice => invoice.id === id ? response : invoice)
mapReplace(invoices, id, response) ==
  [i \in 1..Len(invoices) |-> IF invoices[i].id = id THEN response ELSE invoices[i]]

\* prev.filter(invoice => invoice.id !== id)
RECURSIVE filterOut(_, _)
filterOut(invoices, id) ==
  IF invoices = <<>> THEN <<>>
  ELSE IF Head(invoices).id = id THEN filterOut(Tail(invoices), id)
  ELSE <<Head(invoices)>> \o filterOut(Tail(invoices), id)

\* loadInvoices after its await: the list is replaced by the result
onLoadSettled(app, response) ==
  IF response.pc = "done"
  THEN [app EXCEPT !.invoices = response.ret.rows]
  ELSE app

\* mutants: the new invoice put at the end of the list; isLoading reset in
\* the try block only
onCreateSettledAppend(app, response) ==
  IF response.pc = "done"
  THEN [app EXCEPT !.invoices = Append(@, response.ret),
                   !.createForm = emptyForm,
                   !.isCreateDialogOpen = FALSE,
                   !.isLoading = FALSE]
  ELSE [app EXCEPT !.isLoading = FALSE]
onCreateSettledNoFinally(app, response) ==
  IF response.pc = "done"
  THEN [app EXCEPT !.invoices = <<response.ret>> \o @,
                   !.createForm = emptyForm,
                   !.isCreateDialogOpen = FALSE,
                   !.isLoading = FALSE]
  ELSE app

\* handleCreateSubmit after its await: try, catch, finally
onCreateSettled(app, response) ==
  IF response.pc = "done"
  THEN [app EXCEPT !.invoices = <<response.ret>> \o @,
                   !.createForm = emptyForm,
                   !.isCreateDialogOpen = FALSE,
                   !.isLoading = FALSE]
  ELSE [app EXCEPT !.isLoading = FALSE]

\* handleEditSubmit after its await
onEditSettled(app, response) ==
  IF response.pc = "done"
  THEN [app EXCEPT !.invoices = mapReplace(@, response.input.id, response.ret),
                   !.isEditDialogOpen = FALSE,
                   !.editingInvoice = NoValue,
                   !.editForm = NoValue,
                   !.isLoading = FALSE]
  ELSE [app EXCEPT !.isLoading = FALSE]

\* handleDelete after its await
onDeleteSettled(app, response) ==
  IF response.pc = "done"
  THEN [app EXCEPT !.invoices = filterOut(@, response.input.id)]
  ELSE app

\* the client may send another request
maySend == Cardinality(responses) < MaxResponses

\* useEffect: loadInvoices up to its await, and the query on the server
mount(c) ==
  /\ ~client.mounted
  /\ getInvoices(c)
  /\ client' = [client EXCEPT !.mounted = TRUE]
  /\ UNCHANGED responses

\* the user opens the create dialog and fills the form in
fillCreateForm(form) ==
  /\ ~client.isCreateDialogOpen \/ client.createForm # form
  /\ client' = [client EXCEPT !.isCreateDialogOpen = TRUE, !.createForm = form]
  /\ UNCHANGED <<table, nextId, clock, calls, responses>>

\* the user dismisses a dialog (CANCEL or onOpenChange); its form is kept
closeCreateDialog ==
  /\ client.isCreateDialogOpen
  /\ client' = [client EXCEPT !.isCreateDialogOpen = FALSE]
  /\ UNCHANGED <<table, nextId, clock, calls, responses>>

closeEditDialog ==
  /\ client.isEditDialogOpen
  /\ client' = [client EXCEPT !.isEditDialogOpen = FALSE]
  /\ UNCHANGED <<table, nextId, clock, calls, responses>>

\* handleCreateSubmit up to its await; the submit button is disabled while
\* isLoading
handleCreateSubmit(c) ==
  /\ maySend
  /\ client.isCreateDialogOpen /\ ~client.isLoading
  /\ createInvoiceProcedure(c, client.createForm)
  /\ client' = [client EXCEPT !.isLoading = TRUE]
  /\ UNCHANGED responses

\* the user clicks edit on a listed invoice and changes a field
openEditDialog(invoice, change) ==
  /\ ~client.isEditDialogOpen
  /\ client' = [client EXCEPT !.editingInvoice = invoice,
                              !.editForm = typed(change, editFormOf(invoice)),
                              !.isEditDialogOpen = TRUE]
  /\ UNCHANGED <<table, nextId, clock, calls, responses>>

\* handleEditSubmit up to its await
handleEditSubmit(c) ==
  /\ maySend
  /\ client.isEditDialogOpen /\ ~client.isLoading
  /\ client.editingInvoice # NoValue
  /\ updateInvoiceProcedure(c, updateDataOf(client))
  /\ client' = [client EXCEPT !.isLoading = TRUE]
  /\ UNCHANGED responses

\* handleDelete up to its await
handleDelete(c, id) ==
  /\ maySend
  /\ deleteInvoiceCheck(c, [id |-> id])
  /\ UNCHANGED clientVars

\* the server's answer leaves for the client
Respond(c) ==
  /\ calls[c].pc \in {"done", "failed"}
  /\ calls[c] \notin responses
  /\ responses' = responses \cup {calls[c]}
  /\ calls' = [calls EXCEPT ![c] = Idle]
  /\ UNCHANGED <<table, nextId, clock, client>>

\* a response arrives, in any order, and the awaiting handler resumes
Receive(response) ==
  /\ response \in responses
  /\ responses' = responses \ {response}
  /\ client' =
       CASE response.op = "getInvoices" -> onLoadSettled(client, response)
         [] response.op = "create" -> onCreateSettled(client, response)
         [] response.op = "update" -> onEditSettled(client, response)
         [] response.op = "delete" -> onDeleteSettled(client, response)
  /\ UNCHANGED <<table, nextId, clock, calls>>

\* the initial load has completed
loadCompleted ==
  /\ client.mounted
  /\ \A r \in responses : r.op # "getInvoices"
  /\ \A c \in Slots : calls[c].op # "getInvoices"

\* the invoices whose cards, with their edit and delete buttons, are shown
listedInvoices == {client.invoices[i] : i \in 1..Len(client.invoices)}

\* a user who waits for the list before acting on what is shown, with calls
\* running concurrently on the server
NextApp ==
  \/ Tick /\ UNCHANGED clientVars
  \/ \E c \in Slots : mount(c)
  \/ \E form \in CreateForms : loadCompleted /\ fillCreateForm(form)
  \/ loadCompleted /\ closeCreateDialog
  \/ loadCompleted /\ closeEditDialog
  \/ \E c \in Slots : loadCompleted /\ handleCreateSubmit(c)
  \/ \E c \in Slots : createInvoiceInsert(c) /\ UNCHANGED clientVars
  \/ \E invoice \in listedInvoices, change \in EditChanges :
       loadCompleted /\ openEditDialog(invoice, change)
  \/ \E c \in Slots : loadCompleted /\ handleEditSubmit(c)
  \/ \E c \in Slots : updateInvoiceSet(c) /\ UNCHANGED clientVars
  \/ \E c \in Slots, invoice \in listedInvoices :
       loadCompleted /\ handleDelete(c, invoice.id)
  \/ \E c \in Slots : deleteInvoiceExec(c) /\ UNCHANGED clientVars
  \/ \E c \in Slots : Respond(c)
  \/ \E response \in responses : Receive(response)

SpecApp == Init /\ [][NextApp]_vars

\* a user who may act as soon as the page is rendered, before the list has
\* arrived; the server takes one call at a time
NextAppEager ==
  \/ Tick /\ UNCHANGED clientVars
  \/ mount(Caller)
  \/ \E form \in CreateForms : fillCreateForm(form)
  \/ closeCreateDialog
  \/ closeEditDialog
  \/ handleCreateSubmit(Caller)
  \/ createInvoiceInsert(Caller) /\ UNCHANGED clientVars
  \/ \E invoice \in listedInvoices, change \in EditChanges :
       openEditDialog(invoice, change)
  \/ handleEditSubmit(Caller)
  \/ updateInvoiceSet(Caller) /\ UNCHANGED clientVars
  \/ \E invoice \in listedInvoices : handleDelete(Caller, invoice.id)
  \/ deleteInvoiceExec(Caller) /\ UNCHANGED clientVars
  \/ Respond(Caller)
  \/ \E response \in responses : Receive(response)

SpecAppEager == Init /\ [][NextAppEager]_vars

\* ---------------------------------------------------------------- claims
\* steps of a call, read off two successive states
Starts(c, op) == calls[c].pc = "idle" /\ calls'[c].op = op
Writes(c, op, pc) == calls[c].op = op /\ calls[c].pc = pc /\ calls'[c].pc # pc
FailsWith(c, err) ==
  calls'[c].pc = "failed" /\ calls'[c].err = err /\ calls'[c].ret = NoValue
rowsOf(tbl, number) == {r \in tbl : r.invoice_number = number}
otherRows(tbl, id) == {r \in tbl : r.id # id}
theRow(tbl, id) == CHOOSE r \in tbl : r.id = id

\* C1: a create whose invoice_number is that of a stored invoice fails with
\* the "already exists" error, inserts nothing and leaves every stored record
\* (and the id sequence) as it was.
C1_DuplicateCreateRejected ==
  [][\A c \in Slots :
       (Starts(c, "create") /\ rowsOf(table, calls'[c].input.invoice_number) # {})
       => (FailsWith(c, "already exists") /\ table' = table /\ nextId' = nextId)]_vars

C1_Witness ==
  \E c \in Slots :
    /\ calls[c].op = "create" /\ calls[c].pc = "failed"
    /\ calls[c].err = "already exists"
    /\ \E r \in table : /\ r.invoice_number = calls[c].input.invoice_number
                        /\ r.client_name # calls[c].input.client_name

\* C2: in every reachable state no two stored invoices have the same
\* invoice_number, whatever the interleaving of create, update and delete.
C2_UniqueInvoiceNumber ==
  \A r1 \in table, r2 \in table :
    r1.invoice_number = r2.invoice_number => r1 = r2

C2_Witness ==
  /\ Cardinality(table) = 2
  /\ \E c \in Slots : calls[c].op = "update" /\ calls[c].err = "unique violation"

\* C3: of create calls racing on one invoice_number, all past the pre-check:
\* an insert that runs while no row has the number stores exactly one row and
\* returns it; an insert that runs once a row has the number is rejected by
\* the store, the call fails and the table keeps exactly one such row.
C3_RacingCreates ==
  [][\A c \in Slots :
       Writes(c, "create", "insert") =>
         LET number == calls[c].input.invoice_number IN
           /\ Cardinality(rowsOf(table', number)) = 1
           /\ IF rowsOf(table, number) # {}
              THEN FailsWith(c, "unique violation") /\ table' = table
              ELSE /\ calls'[c].pc = "done"
                   /\ calls'[c].ret.invoice_number = number
                   /\ \A d \in Slots \ {c} :
                        (calls[d].op = "create" /\ calls[d].pc = "insert"
                           /\ calls[d].input.invoice_number = number)
                        => calls'[d] = calls[d]]_vars

C3_Witness ==
  \E c \in Slots :
    /\ calls[c].op = "create" /\ calls[c].pc = "failed"
    /\ calls[c].err = "unique violation"
    /\ calls[c].input.invoice_number = "INV-001"
    /\ Cardinality(rowsOf(table, "INV-001")) = 1

\* C4: a successful update changes, on the row with the given id, only the
\* columns whose keys the input has (each to the supplied value, the amount
\* to two decimals) and updated_at; every other column keeps its stored
\* value and every other row is unchanged.
C4_UpdateFrame ==
  [][\A c \in Slots :
       (Writes(c, "update", "set") /\ calls'[c].pc = "done") =>
         LET input == calls[c].input
             old == theRow(table, input.id)
             new == theRow(table', input.id)
         IN /\ Cardinality(selectById(table', input.id)) = 1
            /\ otherRows(table', input.id) = otherRows(table, input.id)
            /\ \A col \in DOMAIN old \ {"id", "updated_at"} :
                 new[col] = IF col \notin DOMAIN input THEN old[col]
                            ELSE IF col = "amount_due"
                                 THEN (input[col] + 5) \div 10
                                 ELSE input[col]
            /\ calls'[c].ret.id = input.id]_vars

C4_Witness ==
  \E c \in Slots :
    /\ calls[c].op = "update" /\ calls[c].pc = "done"
    /\ DOMAIN calls[c].input = {"id", "invoice_number"}
    /\ calls[c].ret.invoice_number = "INV-002"
    /\ calls[c].ret.client_name = "John Doe"
    /\ Cardinality(table) = 1

\* C5 as claimed: every successful update leaves updated_at strictly greater
\* than it was before the call.
C5_UpdatedAtStrictlyGreater ==
  [][\A c \in Slots :
       (Writes(c, "update", "set") /\ calls'[c].pc = "done") =>
         theRow(table', calls[c].input.id).updated_at
           > theRow(table, calls[c].input.id).updated_at]_vars

\* C5 amended: every successful update, whichever keys the input has, sets
\* updated_at to the handler's reading of the clock at the call; the value is
\* strictly greater than the previous one when the clock has moved past it
\* and equal to it when both writes read the same instant.
C5_UpdatedAtIsNow ==
  [][\A c \in Slots :
       (Writes(c, "update", "set") /\ calls'[c].pc = "done") =>
         LET old == theRow(table, calls[c].input.id)
             new == theRow(table', calls[c].input.id)
         IN /\ new.updated_at = clock
            /\ calls'[c].ret.updated_at = clock
            /\ (clock > old.updated_at => new.updated_at > old.updated_at)
            /\ (clock = old.updated_at => new.updated_at = old.updated_at)]_vars

C5_Witness ==
  \E c \in Slots :
    /\ calls[c].op = "update" /\ calls[c].pc = "done"
    /\ DOMAIN calls[c].input = {"id"}
    /\ calls[c].ret.updated_at > calls[c].ret.created_at
    /\ \E r \in table : r.id = calls[c].input.id /\ r.updated_at = clock

\* C6: an update whose id matches no stored invoice fails with the not-found
\* error and changes nothing in the store: no row appears, none is modified,
\* no updated_at moves.
C6_UpdateMissingId ==
  [][\A c \in Slots :
       (Starts(c, "update") /\ selectById(table, calls'[c].input.id) = {})
       => (FailsWith(c, "not found") /\ table' = table /\ nextId' = nextId)]_vars

C6_Witness ==
  \E c \in Slots :
    /\ calls[c].op = "update" /\ calls[c].pc = "failed"
    /\ calls[c].err = "not found"
    /\ calls[c].input.id \in 1..(nextId - 1)
    /\ "client_name" \in DOMAIN calls[c].input
    /\ table # {}

\* C7: when a delete returns, it returns the success indicator; getInvoice of
\* that id then fails with not found, no list getInvoices can return holds
\* the id, and every other row is exactly as before the delete.
C7_DeleteRemovesOnlyTarget ==
  [][\A c \in Slots :
       (Writes(c, "delete", "delete") /\ calls'[c].pc = "done") =>
         LET id == calls[c].input.id IN
           /\ calls'[c].ret = [success |-> TRUE]
           /\ getInvoiceResult(table', [id |-> id]).pc = "failed"
           /\ getInvoiceResult(table', [id |-> id]).err = "not found"
           /\ \A rows \in getInvoicesResults(table') :
                \A i \in 1..Len(rows) : rows[i].id # id
           /\ table' = otherRows(table, id)]_vars

C7_Witness ==
  \E c \in Slots :
    /\ calls[c].op = "delete" /\ calls[c].pc = "done"
    /\ calls[c].ret = [success |-> TRUE]
    /\ selectById(table, calls[c].input.id) = {}
    /\ table # {}

\* C8: a delete whose id matches no stored invoice fails with the not-found
\* error, returns no success indicator and leaves the store unchanged.
C8_DeleteMissingId ==
  [][\A c \in Slots :
       (Starts(c, "delete") /\ selectById(table, calls'[c].input.id) = {})
       => (FailsWith(c, "not found") /\ table' = table /\ nextId' = nextId)]_vars

C8_Witness ==
  \E c \in Slots :
    /\ calls[c].op = "delete" /\ calls[c].pc = "failed"
    /\ calls[c].err = "not found" /\ calls[c].ret = NoValue
    /\ calls[c].input.id \in 1..(nextId - 1)
    /\ table # {}

\* C9: getInvoice fails with not found for every id no stored invoice has
\* (a negative id, the id of a deleted invoice) and returns the stored record,
\* its amount as a number, for every id one has.
C9_GetInvoice ==
  [][\A c \in Slots :
       Starts(c, "getInvoice") =>
         LET id == calls'[c].input.id IN
           /\ table' = table
           /\ IF \A r \in table : r.id # id
              THEN FailsWith(c, "not found")
              ELSE /\ calls'[c].pc = "done"
                   /\ \E r \in table :
                        /\ r.id = id
                        /\ calls'[c].ret.amount_due = r.amount_due * 10
                        /\ \A col \in DOMAIN r \ {"amount_due"} :
                             calls'[c].ret[col] = r[col]]_vars

C9_Witness ==
  \E c \in Slots :
    /\ calls[c].op = "getInvoice" /\ calls[c].pc = "failed"
    /\ calls[c].err = "not found"
    /\ calls[c].input.id = 1 /\ nextId = 3
    /\ \E r \in table : r.id = 2

\* C10: getInvoices on an empty store returns the empty list, not an error;
\* with N invoices stored it returns exactly those N records, each once, in
\* created_at descending order.
C10_GetInvoices ==
  [][\A c \in Slots :
       Starts(c, "getInvoices") =>
         LET rows == calls'[c].ret.rows IN
           /\ calls'[c].pc = "done"
           /\ table' = table
           /\ Len(rows) = Cardinality(table)
           /\ {rows[i].id : i \in 1..Len(rows)} = {r.id : r \in table}
           /\ \A i \in 1..Len(rows) :
                \E r \in table :
                  /\ rows[i].amount_due = r.amount_due * 10
                  /\ [rows[i] EXCEPT !.amount_due = r.amount_due] = r
           /\ \A i \in 1..Len(rows), j \in 1..Len(rows) :
                i < j => rows[i].created_at >= rows[j].created_at]_vars

C10_Witness ==
  \E c \in Slots :
    /\ calls[c].op = "getInvoices" /\ calls[c].pc = "done"
    /\ Len(calls[c].ret.rows) = 2
    /\ Cardinality(table) = 2
    /\ calls[c].ret.rows[1].created_at > calls[c].ret.rows[2].created_at

\* C13: a successful create stores exactly one new row whose created_at and
\* updated_at both equal the time of creation, and returns that stored
\* record (amount_due as a number).
C13_CreateStoresTimestampedRow ==
  [][\A c \in Slots :
       (Writes(c, "create", "insert") /\ calls'[c].pc = "done") =>
         \E row \in table' \ table :
           /\ table' = table \cup {row}
           /\ row.created_at = clock
           /\ row.updated_at = clock
           /\ row.updated_at = row.created_at
           /\ calls'[c].ret.amount_due = row.amount_due * 10
           /\ [calls'[c].ret EXCEPT !.amount_due = row.amount_due] = row]_vars

C13_Witness ==
  \E c \in Slots :
    /\ calls[c].op = "create" /\ calls[c].pc = "done"
    /\ clock > 0
    /\ calls[c].ret.created_at = clock
    /\ \E r \in table : /\ r.id = calls[c].ret.id
                        /\ r.created_at = clock /\ r.updated_at = clock
                        /\ r.issue_date # clock

\* C15: in every reachable state no two stored invoices share an id, and
\* each successful create assigns an id that no stored invoice has.
C15_UniqueId ==
  [][/\ \A r1 \in table', r2 \in table' : r1.id = r2.id => r1 = r2
     /\ \A c \in Slots :
          (Writes(c, "create", "insert") /\ calls'[c].pc = "done") =>
            /\ calls'[c].ret.id \notin {r.id : r \in table}
            /\ calls'[c].ret.id \in {r.id : r \in table'}]_vars

C15_Witness ==
  \E c \in Slots :
    /\ calls[c].op = "create" /\ calls[c].pc = "done"
    /\ Cardinality(table) > 1
    /\ \E r \in table : r.id # calls[c].ret.id /\ r.created_at = clock

\* C16: an update that supplies paid = false stores paid = false, also on an
\* invoice stored with paid = true, while an update without the paid key
\* leaves paid as stored.
C16_FalsyIsNotOmitted ==
  [][\A c \in Slots :
       (Writes(c, "update", "set") /\ calls'[c].pc = "done") =>
         LET input == calls[c].input
             old == theRow(table, input.id)
             new == theRow(table', input.id)
         IN /\ "paid" \in DOMAIN input =>
                 (new.paid = input.paid /\ calls'[c].ret.paid = input.paid)
            /\ "paid" \notin DOMAIN input =>
                 (new.paid = old.paid /\ calls'[c].ret.paid = old.paid)]_vars

C16_Witness ==
  \E c \in Slots :
    /\ calls[c].op = "update" /\ calls[c].pc = "done"
    /\ calls[c].input = [id |-> calls[c].input.id, paid |-> FALSE]
    /\ \E r \in table : /\ r.id = calls[c].input.id
                        /\ r.invoice_number = testInvoice2.invoice_number
                        /\ testInvoice2.paid
                        /\ r.paid = FALSE

\* C20: create, update and delete issue their select first and at most one
\* write statement after it, two statements at most; a call whose check
\* fails (duplicate number on create, missing id on update or delete) has
\* issued the select only, and the store changes only with a write statement.
C20_CheckBeforeWrite ==
  [][/\ \A c \in Slots :
          LET call == calls'[c]
              write == [create |-> "insert", update |-> "update", delete |-> "delete"]
          IN call.op \in DOMAIN write =>
               /\ call.stmts \in {<<"select">>, <<"select", write[call.op]>>}
               /\ (Starts(c, call.op) /\
                     IF call.op = "create"
                     THEN rowsOf(table, call.input.invoice_number) # {}
                     ELSE \A r \in table : r.id # call.input.id)
                  => (call.pc = "failed" /\ call.stmts = <<"select">>)
               /\ (calls[c].pc = "failed" /\ call.op = calls[c].op)
                  => call.stmts = calls[c].stmts
     /\ table' # table =>
          \E c \in Slots : /\ Len(calls[c].stmts) = Len(<<"select">>)
                           /\ Len(calls'[c].stmts) > Len(calls[c].stmts)]_vars

C20_Witness ==
  \E c \in Slots :
    /\ calls[c].op = "delete" /\ calls[c].pc = "failed"
    /\ calls[c].err = "not found"
    /\ calls[c].stmts = <<"select">>
    /\ table # {}
    /\ \A r \in table : r.id # calls[c].input.id

\* the raw create input a stored invoice_number came from
rawOf(number) ==
  CHOOSE raw \in RawCreateInputs :
    createInputValid(raw) /\ raw.invoice_number = number

\* r is a (thousandths) rounded to two decimals, halves away from zero
roundsTo(a, r) == r % 10 = 0 /\ r - a <= 5 /\ a - r < 5

\* the client's invoice list after a getInvoices call has returned
listed(c) == calls[c].op = "getInvoices" /\ calls[c].pc = "done"

RECURSIVE sumOver(_, _)
sumOver(invoices, indices) ==
  IF indices = {} THEN 0
  ELSE LET i == CHOOSE j \in indices : TRUE IN
         invoices[i].amount_due + sumOver(invoices, indices \ {i})

\* C11: for a created invoice, get_one(id) returns amount_due equal to the
\* create input's amount rounded to two decimal places, and so does the
\* create call itself.
C11_AmountRoundedToCents ==
  [][\A c \in Slots :
       (Writes(c, "create", "insert") /\ calls'[c].pc = "done") =>
         LET got == getInvoiceResult(table', [id |-> calls'[c].ret.id]) IN
           /\ got.pc = "done"
           /\ roundsTo(calls[c].input.amount_due, got.ret.amount_due)
           /\ calls'[c].ret.amount_due = got.ret.amount_due]_vars

C11_Witness ==
  \E c \in Slots :
    /\ calls[c].op = "create" /\ calls[c].pc = "done"
    /\ calls[c].input.amount_due = rawNoPaid.amount_due
    /\ calls[c].input.amount_due % 10 # 0
    /\ getInvoiceResult(table, [id |-> calls[c].ret.id]).ret.amount_due
         = calls[c].input.amount_due + 5

\* C12 (as claimed): after create and update calls whose inputs pass the
\* input schemas, every stored amount_due is strictly greater than 0.
C12_StoredAmountPositive ==
  \A r \in table : r.amount_due > 0

\* C14: no update call, whatever keys its input carries, changes the id or
\* the created_at of a stored invoice: after the update's write the same ids
\* are stored, each with the created_at it had.
C14_IdAndCreatedAtImmutable ==
  [][\A c \in Slots :
       Writes(c, "update", "set") =>
         /\ {q.id : q \in table'} = {r.id : r \in table}
         /\ \A r \in table :
              \E q \in table' : q.id = r.id /\ q.created_at = r.created_at]_vars

C14_Witness ==
  \E c \in Slots :
    /\ calls[c].op = "update" /\ calls[c].pc = "done"
    /\ calls[c].ret.client_name = "Updated Client"
    /\ calls[c].ret.updated_at > calls[c].ret.created_at
    /\ \E r \in table : /\ r.id = calls[c].input.id
                        /\ r.created_at = calls[c].ret.created_at
                        /\ r.updated_at = clock

\* C17: create stores paid = false when the input has no paid key, and the
\* supplied value, true or false, when it has one.
C17_PaidDefaultsToFalse ==
  [][\A c \in Slots :
       (Writes(c, "create", "insert") /\ calls'[c].pc = "done") =>
         LET raw == rawOf(calls[c].input.invoice_number)
             row == theRow(table', calls'[c].ret.id)
         IN row.paid = (IF "paid" \in DOMAIN raw THEN raw.paid ELSE FALSE)]_vars

C17_Witness ==
  \E c \in Slots :
    /\ calls[c].op = "create" /\ calls[c].pc = "done"
    /\ "paid" \notin DOMAIN rawOf(calls[c].input.invoice_number)
    /\ \E r \in table : r.id = calls[c].ret.id /\ r.paid = FALSE
    /\ \E r \in table : r.id # calls[c].ret.id /\ r.paid = TRUE

\* C18: a listed invoice is overdue exactly when its due_date has passed and
\* paid is false; a paid invoice has the PAID badge, not the overdue card
\* style, and is not among the overdue invoices; every listed invoice has
\* one badge among PAID, OVERDUE and PENDING.
C18_OverdueStatus ==
  \A c \in Slots :
    listed(c) =>
      LET invoices == calls[c].ret.rows IN
        \A i \in 1..Len(invoices) :
          LET inv == invoices[i]
              late == inv.due_date < clock /\ inv.paid = FALSE
          IN /\ isOverdue(inv.due_date, inv.paid) <=> late
             /\ badge(inv) \in {"PAID", "OVERDUE", "PENDING"}
             /\ badge(inv) = "OVERDUE" <=> late
             /\ badge(inv) = "PAID" <=> inv.paid
             /\ cardClass(inv) = "invoice-card-overdue" <=> late
             /\ inv.paid =>
                  \A j \in 1..Len(overdueInvoices(invoices)) :
                    overdueInvoices(invoices)[j].id # inv.id

C18_Witness ==
  \E c \in Slots :
    /\ listed(c)
    /\ \E i, j \in 1..Len(calls[c].ret.rows) :
         LET a == calls[c].ret.rows[i]
             b == calls[c].ret.rows[j]
         IN /\ a.paid /\ a.due_date < clock /\ badge(a) = "PAID"
            /\ ~b.paid /\ b.due_date < clock /\ badge(b) = "OVERDUE"

\* C19: the outstanding total is the sum of amount_due over the unpaid
\* invoices of the list, and the overdue count is the number of listed
\* invoices that are unpaid with a passed due_date; paid invoices add to
\* neither.
C19_Aggregates ==
  \A c \in Slots :
    listed(c) =>
      LET invoices == calls[c].ret.rows
          open == {i \in 1..Len(invoices) : invoices[i].paid = FALSE}
          late == {i \in open : invoices[i].due_date < clock}
      IN /\ totalOutstanding(invoices) = sumOver(invoices, open)
         /\ Len(overdueInvoices(invoices)) = Cardinality(late)

C19_Witness ==
  \E c \in Slots :
    /\ listed(c)
    /\ Len(calls[c].ret.rows) > 1
    /\ \E i, j \in 1..Len(calls[c].ret.rows) :
         /\ calls[c].ret.rows[i].paid /\ calls[c].ret.rows[i].amount_due > 0
         /\ ~calls[c].ret.rows[j].paid
         /\ totalOutstanding(calls[c].ret.rows) = calls[c].ret.rows[j].amount_due
         /\ totalOutstanding(calls[c].ret.rows) > 0
    /\ Len(overdueInvoices(calls[c].ret.rows)) = 1

\* C22 (as claimed): a delete call whose delete statement executes when no
\* row with its id is stored fails with "not found", so that a delete call
\* returns success only when its statement removed the row.
C22_DeleteOfMissingRowFails ==
  [][\A c \in Slots :
       (Writes(c, "delete", "delete") /\ selectById(table, calls[c].input.id) = {})
         => FailsWith(c, "not found")]_vars

\* C23 (as claimed): an update whose update statement executes after a
\* concurrent delete removed its row fails with "not found", and an update
\* that returns a record returns one that is stored.
C23_UpdateRacingDelete ==
  [][\A c \in Slots :
       Writes(c, "update", "set") =>
         /\ selectById(table, calls[c].input.id) = {} => FailsWith(c, "not found")
         /\ calls'[c].pc = "done" =>
              \E r \in table' :
                [calls'[c].ret EXCEPT !.amount_due = r.amount_due] = r]_vars

\* C24: an update that sets invoice_number to the number of a different
\* stored invoice fails at the store's unique constraint and leaves every
\* stored record as it was, the target's updated_at included.
C24_UpdateToTakenNumberFails ==
  [][\A c \in Slots :
       (/\ Writes(c, "update", "set")
        /\ selectById(table, calls[c].input.id) # {}
        /\ "invoice_number" \in DOMAIN calls[c].input
        /\ \E r \in table : /\ r.id # calls[c].input.id
                            /\ r.invoice_number = calls[c].input.invoice_number)
         => (FailsWith(c, "unique violation") /\ table' = table)]_vars

C24_Witness ==
  \E c \in Slots :
    /\ calls[c].op = "update" /\ calls[c].pc = "failed"
    /\ calls[c].err = "unique violation"
    /\ clock > 0
    /\ \E r \in table, q \in table :
         /\ r.id = calls[c].input.id /\ q.id # r.id
         /\ q.invoice_number = calls[c].input.invoice_number
         /\ r.invoice_number # q.invoice_number
         /\ r.updated_at < clock

\* C25: getInvoice and getInvoices change nothing: whether the call returns
\* or fails, the stored invoices, every field of each, and the id sequence
\* are the same after the call as before it.
C25_ReadsAreReadOnly ==
  [][\A c \in Slots :
       (Starts(c, "getInvoice") \/ Starts(c, "getInvoices"))
         => (table' = table /\ nextId' = nextId)]_vars

C25_Witness ==
  \E c \in Slots :
    /\ calls[c].op = "getInvoice" /\ calls[c].pc = "done"
    /\ \E r \in table : /\ r.id = calls[c].input.id
                        /\ r.updated_at < clock
                        /\ calls[c].ret.updated_at = r.updated_at

C27_IdNeverReused ==
  [][/\ nextId' >= nextId
     /\ \A r \in table' : r.id < nextId'
     /\ \A id \in 1..MaxId :
          (id < nextId /\ selectById(table, id) = {}) =>
            /\ selectById(table', id) = {}
            /\ getInvoiceResult(table', [id |-> id]).pc = "failed"
            /\ getInvoiceResult(table', [id |-> id]).err = "not found"]_vars

C27_Witness ==
  \E c \in Slots :
    /\ calls[c].op = "create" /\ calls[c].pc = "done"
    /\ calls[c].ret.id > 1
    /\ selectById(table, 1) = {}
    /\ getInvoiceResult(table, [id |-> 1]).err = "not found"

\* nothing is in flight: the list has been loaded, every call has been
\* answered and every answer has arrived
quiescent ==
  /\ loadCompleted
  /\ responses = {}
  /\ \A c \in Slots : calls[c].pc = "idle"

\* C28: with one client and no other writer, once the initial load has
\* completed and every create, edit and delete submitted after it has
\* completed, the client's list is what getInvoices would return: the same
\* records, field by field, newest-created first.
C28_ListMatchesGetInvoices ==
  quiescent => client.invoices \in getInvoicesResults(table)

C28_Witness ==
  /\ quiescent
  /\ Len(client.invoices) > 1
  /\ client.invoices[1].created_at > client.invoices[2].created_at
  /\ \E i \in 1..Len(client.invoices) :
       client.invoices[i].updated_at > client.invoices[i].created_at

\* C29 (as claimed): whatever the order in which the responses of the
\* initial query and of the client's mutations arrive, once all have arrived
\* the list holds every invoice the client created and did not delete, and
\* no invoice it deleted; the client being the only writer, these are the
\* stored invoices.
C29_ListCompleteInAnyArrivalOrder ==
  quiescent => {inv.id : inv \in listedInvoices} = {r.id : r \in table}

\* C30: when a create, edit or delete call fails, the list is left as it
\* was and, for create and edit, the dialog stays as it is (open unless the
\* user has dismissed it) with its form values;
\* when a create or edit call settles, failed or not, isLoading is false.
C30_FailureLeavesListAndForm ==
  [][\A r \in responses :
       responses' = responses \ {r} =>
         /\ r.op \in {"create", "update"} => ~client'.isLoading
         /\ (r.pc = "failed" /\ r.op \in {"create", "update", "delete"}) =>
              client'.invoices = client.invoices
         /\ (r.pc = "failed" /\ r.op = "create") =>
              /\ client'.isCreateDialogOpen = client.isCreateDialogOpen
              /\ client'.createForm = client.createForm
         /\ (r.pc = "failed" /\ r.op = "update") =>
              /\ client'.isEditDialogOpen = client.isEditDialogOpen
              /\ client'.editForm = client.editForm
              /\ client'.editingInvoice = client.editingInvoice]_vars

C30_Witness ==
  /\ client.isLoading /\ client.isCreateDialogOpen
  /\ client.invoices # <<>>
  /\ \E r \in responses :
       /\ r.op = "create" /\ r.pc = "failed"
       /\ r.input.invoice_number = client.createForm.invoice_number

\* C21: when a store statement of any of the five operations fails, the call
\* fails to its caller with the store's failure, the failed statement is the
\* last one the call issues (no retry, no further statement), and the store
\* is left as it was.
C21_StoreFailurePropagates ==
  [][\A c \in Slots :
       /\ (calls'[c].err = "store failure" /\ calls[c].err # "store failure") =>
            /\ calls'[c].pc = "failed" /\ calls'[c].ret = NoValue
            /\ table' = table
            /\ calls'[c].stmts \in
                 {<<"select">>} \cup
                 {<<"select", w>> : w \in {"insert", "update", "delete"}}
            /\ Len(calls'[c].stmts) = Len(calls[c].stmts) + 1
       /\ (calls[c].pc = "failed" /\ calls[c].err = "store failure") =>
            /\ calls'[c] \in {calls[c], Idle}
            /\ table' = table]_vars

C21_Witness ==
  \E c \in Slots :
    /\ calls[c].op = "update" /\ calls[c].pc = "failed"
    /\ calls[c].err = "store failure"
    /\ calls[c].stmts = <<"select", "update">>
    /\ \E r \in table : r.id = calls[c].input.id /\ r.paid = FALSE

====
